---- MODULE Spec2Model ----
(***************************************************************************)
(* RunCmd (src/src/runcmd.rs): a runner that owns one command string,      *)
(* three boolean flags and the last captured result, and runs the command  *)
(* as a child process through execute() or execute_output().               *)
(*                                                                         *)
(* A String is a sequence of Unicode scalar values, a byte buffer a        *)
(* sequence of 0..255.  The command string is never decoded or inspected   *)
(* and is kept as an opaque string.  The child process is the environment: *)
(* each execution call draws its outcome (spawn failure, exit with a code  *)
(* and the bytes written to both streams, or termination by a signal).     *)
(* A panic ends the program: no call is made on the runner after it.       *)
(* RunCmd::interactive (lines 115-153) is not called by any path modelled  *)
(* here and is left out.                                                   *)
(***************************************************************************)
EXTENDS Integers, Sequences, FiniteSets

\* ------------------------------------------------------------------ bounds

\* Execution calls (execute / execute_output) made on the runner.
MaxRuns == 2

\* ------------------------------------------------------- program constants

\* runcmd.rs:104, the exit code recorded when the child has no exit code.
InterruptedCode == -1

\* runcmd.rs:105, "Interrupted! in RunCmd"
InterruptedMsg ==
    << 73, 110, 116, 101, 114, 114, 117, 112, 116, 101, 100, 33, 32,
       105, 110, 32, 82, 117, 110, 67, 109, 100 >>

\* runcmd.rs:39-40, String::from("")
EmptyString == << >>

\* ------------------------------------------------------------ input domains

\* Strings passed to RunCmd::new.
Commands == { "echo foo", "bash -c \"exit 0\"" }

\* Bytes a child writes to one stream: nothing, "f" followed by the two-byte
\* encoding of U+00E9, and a byte that is not valid UTF-8.
Outputs == { << >>, << 102, 195, 169 >>, << 255 >> }

\* Exit codes the OS reports for a child that exited.
ExitCodes == { 0, 255 }

Outcomes ==
    { [kind |-> "spawnfail", code |-> 0, out |-> << >>, err |-> << >>] }
    \cup [kind : {"exited"}, code : ExitCodes, out : Outputs, err : Outputs]
    \cup [kind : {"signaled"}, code : {0}, out : Outputs, err : {<< >>}]

\* ------------------------------------------------------------------- UTF-8

IsCont(b) == b >= 128 /\ b <= 191

\* Length of the UTF-8 sequence starting at bytes[i], 0 when it is invalid
\* (core::str validation: no overlong forms, no surrogates, max U+10FFFF).
Utf8Width(bytes, i) ==
    IF bytes[i] < 128 THEN 1
    ELSE IF bytes[i] >= 194 /\ bytes[i] <= 223
         THEN IF i + 1 <= Len(bytes) /\ IsCont(bytes[i + 1]) THEN 2 ELSE 0
    ELSE IF bytes[i] >= 224 /\ bytes[i] <= 239
         THEN IF i + 2 <= Len(bytes)
                 /\ IsCont(bytes[i + 1]) /\ IsCont(bytes[i + 2])
                 /\ (bytes[i] = 224 => bytes[i + 1] >= 160)
                 /\ (bytes[i] = 237 => bytes[i + 1] <= 159)
              THEN 3 ELSE 0
    ELSE IF bytes[i] >= 240 /\ bytes[i] <= 244
         THEN IF i + 3 <= Len(bytes)
                 /\ IsCont(bytes[i + 1]) /\ IsCont(bytes[i + 2])
                 /\ IsCont(bytes[i + 3])
                 /\ (bytes[i] = 240 => bytes[i + 1] >= 144)
                 /\ (bytes[i] = 244 => bytes[i + 1] <= 143)
              THEN 4 ELSE 0
    ELSE 0

\* The scalar value of the w-byte sequence starting at bytes[i].
Utf8Scalar(bytes, i, w) ==
    CASE w = 1 -> bytes[i]
      [] w = 2 -> (bytes[i] - 192) * 64 + (bytes[i + 1] - 128)
      [] w = 3 -> (bytes[i] - 224) * 4096 + (bytes[i + 1] - 128) * 64
                  + (bytes[i + 2] - 128)
      [] w = 4 -> (bytes[i] - 240) * 262144 + (bytes[i + 1] - 128) * 4096
                  + (bytes[i + 2] - 128) * 64 + (bytes[i + 3] - 128)

\* A decoded scalar put in front of the decoding of the rest.
Utf8Cons(c, rest) ==
    [ok    |-> rest.ok,
     chars |-> IF rest.ok THEN << c >> \o rest.chars ELSE << >>]

RECURSIVE Utf8From(_, _)

\* Decoding from bytes[i], whose sequence has width w (0: invalid).
Utf8Next(bytes, i, w) ==
    IF w = 0
    THEN [ok |-> FALSE, chars |-> << >>]
    ELSE Utf8Cons(Utf8Scalar(bytes, i, w), Utf8From(bytes, i + w))

Utf8From(bytes, i) ==
    IF i > Len(bytes)
    THEN [ok |-> TRUE, chars |-> << >>]
    ELSE Utf8Next(bytes, i, Utf8Width(bytes, i))

\* String::from_utf8(bytes): Ok(chars) or Err.
from_utf8(bytes) == Utf8From(bytes, 1)

\* ------------------------------------------------------------------ RunCmd

\* RunCmd::new(cmd)
new(cmd) ==
    [ retval  |-> [ cmd      |-> cmd,
                    stdout   |-> EmptyString,
                    stderr   |-> EmptyString,
                    exitcode |-> 0 ],
      verbose |-> FALSE,
      execute |-> FALSE,
      shell   |-> FALSE ]

\* verbose() written as a toggle.
verboseOp_Toggle(self) == [self EXCEPT !.verbose = ~self.verbose]

\* RunCmd::verbose(&mut self)
verboseOp(self) == [self EXCEPT !.verbose = TRUE]

\* shell() that also rewrites the stored command into the interpreter's.
shellOp_Rewrite(self) == [self EXCEPT !.shell = TRUE, !.retval.cmd = "sh -c"]

\* RunCmd::shell(&mut self)
shellOp(self) == [self EXCEPT !.shell = TRUE]

\* RunCmd::print(&self): the four labelled sections, in the order printed.
print(self) ==
    << [label |-> "cmd",      text |-> self.retval.cmd],
       [label |-> "stdout",   text |-> self.retval.stdout],
       [label |-> "stderr",   text |-> self.retval.stderr],
       [label |-> "exitcode", text |-> self.retval.exitcode] >>

\* The executor chosen at runcmd.rs:86-90.
Executor(self) == IF self.shell THEN "shell" ELSE "direct"

\* Line 92 with the marker not negated: capture when verbose or under execute().
Piped_Marked(self) == self.verbose \/ self.execute

\* Line 92 without the marker: capture in verbose mode only.
Piped_VerboseOnly(self) == self.verbose

\* runcmd.rs:92, whether stdout and stderr are set to Stdio::piped().
Piped(self) == self.verbose \/ ~self.execute

\* What Output holds for one stream: the child's bytes when the stream is
\* piped, nothing when it is inherited (the bytes went to the terminal).
Captured(piped, bytes) == IF piped THEN bytes ELSE << >>

\* An event of one execution call, in program order.
Event(ev, val) == [ev |-> ev, val |-> val]

\* Lines 100-102 with stdout pushed onto the retained string instead of
\* replacing it.
Decoded_Append(self, code, so, se) ==
    IF ~so.ok
    THEN [ok |-> FALSE, self |-> [self EXCEPT !.retval.exitcode = code]]
    ELSE IF ~se.ok
    THEN [ok |-> FALSE, self |-> [self EXCEPT !.retval.exitcode = code,
                                              !.retval.stdout   = @ \o so.chars]]
    ELSE [ok |-> TRUE,  self |-> [self EXCEPT !.retval.exitcode = code,
                                              !.retval.stdout   = @ \o so.chars,
                                              !.retval.stderr   = se.chars]]

\* runcmd.rs:100-102 with the two decodings so and se done: ok is FALSE
\* when an unwrap of from_utf8 panicked, the earlier assignments kept.
Decoded(self, code, so, se) ==
    IF ~so.ok
    THEN [ok |-> FALSE, self |-> [self EXCEPT !.retval.exitcode = code]]
    ELSE IF ~se.ok
    THEN [ok |-> FALSE, self |-> [self EXCEPT !.retval.exitcode = code,
                                              !.retval.stdout   = so.chars]]
    ELSE [ok |-> TRUE,  self |-> [self EXCEPT !.retval.exitcode = code,
                                              !.retval.stdout   = so.chars,
                                              !.retval.stderr   = se.chars]]

\* runcmd.rs:99-106: the runner after the if-let on output.status.code().
Record(self, output) ==
    IF output.kind = "exited"
    THEN Decoded(self, output.code,
                 from_utf8(output.stdout), from_utf8(output.stderr))
    ELSE [ok   |-> TRUE,
          self |-> [self EXCEPT !.retval.exitcode = InterruptedCode,
                                !.retval.stderr   = InterruptedMsg]]

\* Lines 108-112 with the report printed whatever the verbose flag.
Report_Unconditional(self) ==
    << Event("print", print(self)), Event("return", self.retval) >>

\* runcmd.rs:108-112: the optional report, then the clone returned.
Report(self) ==
    (IF self.verbose THEN << Event("print", print(self)) >> ELSE << >>)
    \o << Event("return", self.retval) >>

\* The result of an execution call.  status: "returned" or "panicked";
\* stored: the call got past decoding; ret: the value returned (meaningful
\* when status = "returned").
Result(self, status, stored, piped, events) ==
    [ self |-> self, status |-> status, stored |-> stored,
      piped |-> piped, ret |-> self.retval, events |-> events ]

\* runcmd.rs:99-113, given the events so far and the outcome rec of Record.
AfterRecord(piped, pre, rec) ==
    IF ~rec.ok
    THEN Result(rec.self, "panicked", FALSE, piped,
                pre \o << Event("panic", "from_utf8") >>)
    ELSE Result(rec.self, "returned", TRUE, piped,
                pre \o << Event("store", rec.self.retval) >> \o Report(rec.self))

\* runcmd.rs:97-113, given the Output that executor.execute_output() gave.
AfterWait(self, piped, spawnEv, output) ==
    AfterRecord(piped, << spawnEv, Event("wait", output) >>,
                Record(self, output))

\* runcmd.rs:97-113, given the stdio setting chosen at line 92: the unwrap
\* of a spawn failure panics, otherwise Output holds what was captured.
AfterSpawn(self, o, piped, spawnEv) ==
    IF o.kind = "spawnfail"
    THEN Result(self, "panicked", FALSE, piped,
                << spawnEv, Event("panic", "spawn") >>)
    ELSE AfterWait(self, piped, spawnEv,
                   [ kind   |-> o.kind,
                     code   |-> o.code,
                     stdout |-> Captured(piped, o.out),
                     stderr |-> Captured(piped, o.err) ])

\* RunCmd::execute_output(&mut self) run against child outcome o.
execute_output(self, o) ==
    AfterSpawn(self, o, Piped(self),
               Event("spawn", [executor |-> Executor(self),
                               cmd      |-> self.retval.cmd,
                               piped    |-> Piped(self)]))

\* Lines 77-79 with the test written as exitcode > 0.
FailFast_Positive(r) ==
    IF r.status = "returned" /\ r.ret.exitcode > 0
    THEN [r EXCEPT !.status = "panicked",
                   !.events = r.events \o << Event("panic", "exitcode") >>]
    ELSE r

\* runcmd.rs:77-79 applied to the result r of execute_output.
FailFast(r) ==
    IF r.status = "returned" /\ r.ret.exitcode # 0
    THEN [r EXCEPT !.status = "panicked",
                   !.events = r.events \o << Event("panic", "exitcode") >>]
    ELSE r

\* RunCmd::execute(&mut self) run against child outcome o.
execute(self, o) == FailFast(execute_output([self EXCEPT !.execute = TRUE], o))

\* ------------------------------------------------------------------- state

VARIABLES
    arg,        \* the string passed to RunCmd::new
    rc,         \* the runner
    pc,         \* "ready", or "panicked" once a fatal error was raised
    calls,      \* the execution calls made on rc, oldest first
    twin,       \* a second runner built from the same string that receives
                \* the same calls except verbose()
    twinPc,
    twinCalls   \* the execution calls made on twin

vars == << arg, rc, pc, calls, twin, twinPc, twinCalls >>

\* What is kept of one execution call.
Call(op, before, o, r) ==
    [ op      |-> op,
      verbose |-> before.verbose,
      shell   |-> before.shell,
      outcome |-> o,
      piped   |-> r.piped,
      status  |-> r.status,
      stored  |-> r.stored,
      retval  |-> r.self.retval,
      ret     |-> r.ret,
      events  |-> r.events ]

Init ==
    /\ arg \in Commands
    /\ rc = new(arg)
    /\ pc = "ready"
    /\ calls = << >>
    /\ twin = new(arg)
    /\ twinPc = "ready"
    /\ twinCalls = << >>

Verbose ==
    /\ pc = "ready"
    /\ rc' = verboseOp(rc)
    /\ UNCHANGED << arg, pc, calls, twin, twinPc, twinCalls >>

Shell ==
    /\ pc = "ready"
    /\ rc' = shellOp(rc)
    /\ twin' = IF twinPc = "ready" THEN shellOp(twin) ELSE twin
    /\ UNCHANGED << arg, pc, calls, twinPc, twinCalls >>

\* The call `op` with outcome o made on rc (result r) and twin (result tr).
Step(op, o, r, tr) ==
    /\ rc' = r.self
    /\ pc' = IF r.status = "panicked" THEN "panicked" ELSE "ready"
    /\ calls' = Append(calls, Call(op, rc, o, r))
    /\ IF twinPc = "ready"
       THEN /\ twin' = tr.self
            /\ twinPc' = IF tr.status = "panicked" THEN "panicked" ELSE "ready"
            /\ twinCalls' = Append(twinCalls, Call(op, twin, o, tr))
       ELSE UNCHANGED << twin, twinPc, twinCalls >>
    /\ UNCHANGED arg

\* Whether another execution call can be made.
CanRun == pc = "ready" /\ Len(calls) < MaxRuns

Execute ==
    /\ CanRun
    /\ \E o \in Outcomes :
          Step("execute", o, execute(rc, o), execute(twin, o))

ExecuteOutput ==
    /\ CanRun
    /\ \E o \in Outcomes :
          Step("execute_output", o, execute_output(rc, o), execute_output(twin, o))

Next == Verbose \/ Shell \/ Execute \/ ExecuteOutput

Spec == Init /\ [][Next]_vars

\* ------------------------------------------------------------------ claims

\* The exit code of a run whose child was spawned: the code the OS reports,
\* or the sentinel when the child has none.
RunExitCode(o) == IF o.kind = "exited" THEN o.code ELSE InterruptedCode

\* Whether the bytes the child wrote to both streams are valid UTF-8.
ValidText(o) == from_utf8(o.out).ok /\ from_utf8(o.err).ok

\* The three values of a result that the claims compare.
Triple(rv) == << rv.exitcode, rv.stdout, rv.stderr >>

\* Whether execute() was called at or before execution call i.
ExecuteByOrBefore(i) == \E j \in 1..i : calls[j].op = "execute"

\* The positions of the events named ev in a call's events.
EventsOf(c, ev) == { k \in DOMAIN c.events : c.events[k].ev = ev }

\* C1 as stated: for every configuration and every outcome of a spawned
\* child, execute() returns normally if and only if the run's exit code is 0.
C1_ReturnsIffExitZero ==
    \A i \in DOMAIN calls :
        (calls[i].op = "execute" /\ calls[i].outcome.kind # "spawnfail")
        => (calls[i].status = "returned"
            <=> RunExitCode(calls[i].outcome) = 0)

\* C1 amended: for every outcome of a spawned child, execute() returns
\* normally if and only if the run's exit code is 0 (the -1 of a signalled
\* child counts as non-zero) and no captured output fails to decode, which
\* can only happen to a verbose runner whose child exited with bytes that
\* are not valid UTF-8; execute() raises a fatal error in every other case,
\* so with verbose off the original equivalence holds.
C1_ReturnsIffExitZeroAndDecodable ==
    \A i \in DOMAIN calls :
        (calls[i].op = "execute" /\ calls[i].outcome.kind # "spawnfail")
        => /\ calls[i].status \in {"returned", "panicked"}
           /\ calls[i].status = "returned"
              <=> /\ RunExitCode(calls[i].outcome) = 0
                  /\ ~ ( /\ calls[i].verbose
                         /\ calls[i].outcome.kind = "exited"
                         /\ ~ValidText(calls[i].outcome) )

\* Reached: an execute() that returned on exit code 0 followed by an
\* execute() that raised on the signalled child's -1.
C1_Witness ==
    /\ Len(calls) = 2
    /\ calls[1].op = "execute" /\ calls[1].status = "returned"
    /\ calls[1].outcome.kind = "exited" /\ calls[1].outcome.code = 0
    /\ calls[2].op = "execute" /\ calls[2].status = "panicked"
    /\ calls[2].outcome.kind = "signaled"
    /\ calls[2].retval.exitcode = InterruptedCode

\* The Output buffers of call c hold exactly what the child wrote.
BuffersHoldOutput(c) ==
    \A k \in EventsOf(c, "wait") :
        /\ c.events[k].val.stdout = c.outcome.out
        /\ c.events[k].val.stderr = c.outcome.err

\* The Output buffers of call c are empty: nothing was captured.
BuffersEmpty(c) ==
    \A k \in EventsOf(c, "wait") :
        /\ c.events[k].val.stdout = << >>
        /\ c.events[k].val.stderr = << >>

\* C2 as stated: stdout/stderr are captured whenever verbose is on; with
\* verbose off they are inherited on execute_output() used without execute()
\* and captured when the run is made through execute().
C2_CapturedUnderExecute ==
    \A i \in DOMAIN calls :
        /\ calls[i].verbose
           => calls[i].piped /\ BuffersHoldOutput(calls[i])
        /\ (~calls[i].verbose /\ ~ExecuteByOrBefore(i))
           => ~calls[i].piped /\ BuffersEmpty(calls[i])
        /\ (~calls[i].verbose /\ calls[i].op = "execute")
           => calls[i].piped /\ BuffersHoldOutput(calls[i])

\* C2 amended: stdout/stderr are captured whenever verbose is on; with
\* verbose off they are captured on execute_output() used without execute()
\* and inherited (nothing captured) when the run is made through execute().
C2_InheritedUnderExecute ==
    \A i \in DOMAIN calls :
        /\ calls[i].verbose
           => calls[i].piped /\ BuffersHoldOutput(calls[i])
        /\ (~calls[i].verbose /\ ~ExecuteByOrBefore(i))
           => calls[i].piped /\ BuffersHoldOutput(calls[i])
        /\ (~calls[i].verbose /\ calls[i].op = "execute")
           => ~calls[i].piped /\ BuffersEmpty(calls[i])

\* Reached: with verbose off, an execute_output() that captured the child's
\* output followed by an execute() of a child that wrote output, of which
\* nothing was captured.
C2_Witness ==
    /\ Len(calls) = 2
    /\ ~calls[1].verbose /\ calls[1].op = "execute_output"
    /\ calls[1].outcome.out # << >>
    /\ \E k \in EventsOf(calls[1], "wait") :
          calls[1].events[k].val.stdout = calls[1].outcome.out
    /\ ~calls[2].verbose /\ calls[2].op = "execute"
    /\ calls[2].outcome.out # << >>
    /\ \E k \in EventsOf(calls[2], "wait") :
          calls[2].events[k].val.stdout = << >>
\* C3: verbose is result-neutral.  rc and twin are built from the same
\* string and go through the same execution calls with the same child
\* behaviour, and only rc is ever made verbose: every run that gets past
\* decoding on both stores the same exitcode, stdout and stderr on both,
\* and execute_output() returns the same three values on both.
C3_VerboseResultNeutral ==
    \A i \in DOMAIN twinCalls :
        (calls[i].stored /\ twinCalls[i].stored)
        => /\ Triple(calls[i].retval) = Triple(twinCalls[i].retval)
           /\ ( /\ calls[i].op = "execute_output"
                /\ calls[i].status = "returned"
                /\ twinCalls[i].status = "returned" )
              => Triple(calls[i].ret) = Triple(twinCalls[i].ret)

\* C4: after any sequence of verbose, shell, execute and execute_output
\* calls, the cmd field of the retained result, of the result stored by
\* every run and of every result execute_output() returned is the string
\* passed to new().
C4_CommandPreserved ==
    /\ rc.retval.cmd = arg
    /\ \A i \in DOMAIN calls :
          /\ calls[i].retval.cmd = arg
          /\ (calls[i].op = "execute_output" /\ calls[i].status = "returned")
             => calls[i].ret.cmd = arg

\* Reached: execute_output() returned in direct mode for a child that
\* exited, then in shell mode for a child that was killed.
C4_Witness ==
    /\ Len(calls) = 2
    /\ calls[1].op = "execute_output" /\ calls[1].status = "returned"
    /\ ~calls[1].shell /\ calls[1].outcome.kind = "exited"
    /\ calls[2].op = "execute_output" /\ calls[2].status = "returned"
    /\ calls[2].shell /\ calls[2].outcome.kind = "signaled"

\* C5: whenever the child of an execute_output() call terminates without
\* an exit code, the call returns (no fatal error) a result with exitcode
\* -1, stderr "Interrupted! in RunCmd" and stdout empty, and that result is
\* the one stored; on every call, not only the first.
C5_InterruptedResult ==
    \A i \in DOMAIN calls :
        (calls[i].op = "execute_output" /\ calls[i].outcome.kind = "signaled")
        => /\ calls[i].status = "returned"
           /\ calls[i].ret = calls[i].retval
           /\ calls[i].ret.exitcode = InterruptedCode
           /\ calls[i].ret.stderr = InterruptedMsg
           /\ calls[i].ret.stdout = EmptyString

\* A runner just built from the string s with the flags of call c.
FreshLike(s, c) ==
    [new(s) EXCEPT !.verbose = c.verbose, !.shell = c.shell]

\* C6: the result execute_output() returns depends only on that run: it is
\* the result that a runner just built from the same string, with the same
\* verbose and shell flags, returns for the same child outcome, whatever
\* execution calls were made before on the runner.
C6_HistoryIndependent ==
    \A i \in DOMAIN calls :
        (calls[i].op = "execute_output" /\ calls[i].status = "returned")
        => calls[i].ret
           = execute_output(FreshLike(arg, calls[i]), calls[i].outcome).ret

\* C7: on a runner on which neither verbose() nor shell() nor execute() was
\* ever called, two execute_output() calls in a row whose child has the
\* same outcome return the same exitcode, stdout and stderr.
C7_Idempotent ==
    \A i \in DOMAIN calls :
        ( /\ i > 1
          /\ ~rc.verbose /\ ~rc.shell /\ ~ExecuteByOrBefore(i)
          /\ calls[i].outcome = calls[i - 1].outcome
          /\ calls[i - 1].status = "returned"
          /\ calls[i].status = "returned" )
        => Triple(calls[i].ret) = Triple(calls[i - 1].ret)

\* Reached: two execute_output() calls on an unconfigured runner whose child
\* wrote the same output and exited with the same code both times.
C7_Witness ==
    /\ Len(calls) = 2
    /\ ~rc.verbose /\ ~rc.shell /\ ~ExecuteByOrBefore(2)
    /\ calls[1].outcome = calls[2].outcome
    /\ calls[1].outcome.kind = "exited"
    /\ calls[1].outcome.out # << >>
    /\ calls[1].status = "returned" /\ calls[2].status = "returned"
    /\ calls[2].ret.stdout # EmptyString

\* The four sections of a report, for the stored result rv.
Sections(rv) ==
    << [label |-> "cmd",      text |-> rv.cmd],
       [label |-> "stdout",   text |-> rv.stdout],
       [label |-> "stderr",   text |-> rv.stderr],
       [label |-> "exitcode", text |-> rv.exitcode] >>

\* C8: in every execution call that gets past spawning and decoding the
\* report is printed exactly once if verbose is set, and it is never printed
\* otherwise; it is printed after the stored result was updated with this
\* run's values, it shows them in the order command, stdout, stderr, exit
\* code, and it is printed before execute_output() returns, hence before
\* the fatal error of an execute() whose exit code is not 0.
C8_ReportOrdering ==
    \A i \in DOMAIN calls :
        LET c == calls[i]
        IN  /\ Cardinality(EventsOf(c, "print"))
               = IF c.stored /\ c.verbose THEN 1 ELSE 0
            /\ \A p \in EventsOf(c, "print") :
                  /\ p > 1
                  /\ c.events[p - 1].ev = "store"
                  /\ c.events[p - 1].val = c.retval
                  /\ c.retval.exitcode = RunExitCode(c.outcome)
                  /\ c.events[p].val = Sections(c.retval)
                  /\ p < Len(c.events)
                  /\ c.events[p + 1].ev = "return"
                  /\ \A q \in EventsOf(c, "panic") : p < q
            /\ (c.op = "execute" /\ c.stored /\ c.verbose
                  /\ c.retval.exitcode # 0)
               => /\ c.status = "panicked"
                  /\ EventsOf(c, "print") # {}
                  /\ EventsOf(c, "panic") # {}

\* Reached: a verbose execute() whose child wrote output and exited with a
\* non-zero code, so that the report was printed and the error raised.
C8_Witness ==
    /\ Len(calls) >= 1
    /\ calls[1].op = "execute" /\ calls[1].verbose /\ calls[1].stored
    /\ calls[1].outcome.kind = "exited" /\ calls[1].outcome.code # 0
    /\ calls[1].outcome.out # << >>
    /\ calls[1].status = "panicked"
    /\ EventsOf(calls[1], "print") # {}

\* What a step that is not an execution call leaves alone: the executed
\* marker, the retained result and at least one of the two flags.
ConfigFrame ==
    (calls' = calls)
    => /\ rc'.execute = rc.execute
       /\ rc'.retval = rc.retval
       /\ (rc'.verbose = rc.verbose \/ rc'.shell = rc.shell)

\* A flag that is true stays true.
FlagsStay ==
    /\ rc.verbose => rc'.verbose
    /\ rc.shell => rc'.shell
    /\ rc.execute => rc'.execute

\* verbose() and shell() applied twice give what they give applied once,
\* and each changes nothing but its own flag.
ConfigIdempotent ==
    /\ verboseOp(verboseOp(rc)) = verboseOp(rc)
    /\ shellOp(shellOp(rc)) = shellOp(rc)
    /\ verboseOp(rc) = [rc EXCEPT !.verbose = TRUE]
    /\ shellOp(rc) = [rc EXCEPT !.shell = TRUE]

\* C9: verbose() and shell() are idempotent, each changes only its own flag
\* and leaves the other flag, the executed marker and the retained result
\* unchanged, and across any sequence of operations a flag that is true
\* (verbose, shell, the executed marker) never becomes false again.
C9_FlagsSetOnly ==
    /\ [] ConfigIdempotent
    /\ [][ConfigFrame /\ FlagsStay]_vars

\* Reached: all three flags set, after a run that stored a non-empty stdout.
C9_Witness ==
    /\ rc.verbose /\ rc.shell /\ rc.execute
    /\ Len(calls) = 2
    /\ rc.retval.stdout # EmptyString

\* C10: in every execution call stdout and stderr are piped if and only if
\* verbose is set or execute() has never been called on the runner; hence
\* execute_output() on a non-verbose runner that never ran execute() returns
\* the text the child wrote to stdout and stderr and the exit code the OS
\* reported, in shell and direct mode alike, and a non-verbose run made by
\* or after execute() that terminates normally stores empty stdout and
\* stderr.
C10_CaptureRule ==
    \A i \in DOMAIN calls :
        LET c == calls[i]
        IN  /\ c.piped <=> (c.verbose \/ ~ExecuteByOrBefore(i))
            /\ ( /\ ~c.verbose /\ ~ExecuteByOrBefore(i)
                 /\ c.outcome.kind = "exited" /\ ValidText(c.outcome) )
               => /\ c.status = "returned"
                  /\ c.ret.stdout = from_utf8(c.outcome.out).chars
                  /\ c.ret.stderr = from_utf8(c.outcome.err).chars
                  /\ c.ret.exitcode = c.outcome.code
            /\ ( /\ ~c.verbose /\ ExecuteByOrBefore(i)
                 /\ c.outcome.kind = "exited" )
               => /\ c.stored
                  /\ c.retval.stdout = EmptyString
                  /\ c.retval.stderr = EmptyString
                  /\ c.retval.exitcode = c.outcome.code

\* Reached: with verbose off, execute() of a child that wrote to both
\* streams stored nothing of it, and the execute_output() after it, in shell
\* mode, returned nothing of it either.
C10_Witness ==
    /\ Len(calls) = 2
    /\ ~calls[1].verbose /\ calls[1].op = "execute"
    /\ calls[1].outcome.out # << >> /\ calls[1].outcome.err # << >>
    /\ calls[1].retval.stdout = EmptyString
    /\ ~calls[2].verbose /\ calls[2].shell
    /\ calls[2].op = "execute_output" /\ calls[2].status = "returned"
    /\ calls[2].outcome.kind = "exited"
    /\ calls[2].outcome.out # << >> /\ calls[2].outcome.err # << >>
    /\ calls[2].ret.stdout = EmptyString /\ calls[2].ret.stderr = EmptyString

====
